---- MODULE Spec2Model ----
(***************************************************************************)
(* The pane tree of one tab (src/cascadia/TerminalApp/Pane.cpp): a binary  *)
(* tree of Pane objects, the ConnectionClosed / Closed event subscriptions *)
(* between controls and panes, and the dispatcher queue on which a parent  *)
(* runs _CloseChild.                                                       *)
(*                                                                         *)
(* Pane objects live in an arena indexed by 1..MaxPanes.  A pane that the  *)
(* tree has released keeps its slot: the lambdas registered by             *)
(* _AddControlToRoot and _SetupChildCloseHandlers capture a raw `this`, so *)
(* a released pane can still be called.  Such a call is undefined          *)
(* behaviour; every place that can make one takes a nondeterministic       *)
(* outcome from UBOutcomes.                                                *)
(***************************************************************************)
EXTENDS Integers, Sequences, FiniteSets, TLC

(* Bounds of the model. *)
MaxSessions == 3
NumProfiles == 2

(* Null values of the program. *)
NullPane == 0
NullControl == 0
NullProfile == 0
Root == 1

MaxPanes == 2 * MaxSessions - 1
Panes == 1..MaxPanes
Sessions == 1..MaxSessions
Profiles == 1..NumProfiles
Orientations == {"Vertical", "Horizontal"}

(* The outcomes of a call through a pointer to a released Pane:            *)
(*   "intact"  the memory still holds what was last written, the call runs *)
(*   "skip"    the destroyed members are empty, the call does nothing      *)
(*   "crash"   the process faults                                          *)
UBOutcomes == {"intact", "skip", "crash"}

VARIABLES
    nodes,             \* pane -> the Pane object's fields
    numSessions,       \* controls created so far; panes 1..2*numSessions-1 exist
    connectionClosed,  \* control -> sequence of panes subscribed to ConnectionClosed
    closedHandlers,    \* pane -> sequence of [pane, closeFirst] subscribed to Closed
    queue,             \* dispatcher: pending _CloseChild callbacks, FIFO
    terminated,        \* controls whose connection has closed
    signalled,         \* control -> where it was held when its connection closed
                       \* with CloseOnExit(): "root", "child", "detached"; else "no"
    focus,             \* the control whose FocusState is not Unfocused, or NullControl
    raised,            \* pane -> how often its Closed event was raised (capped at 2)
    crashed,           \* the process has faulted
    last               \* the last tree operation and its arguments; a _CloseChild
                       \* that directly follows the split of the same pane keeps
                       \* that split's arguments (afterSplit)

vars == <<nodes, numSessions, connectionClosed, closedHandlers, queue,
          terminated, signalled, focus, raised, crashed, last>>

(* Default value of the constructor's third parameter. *)
DefaultLastFocused == FALSE

(* Pane::Pane: a leaf holding (profile, control). *)
Pane(profile, control, lastFocused) ==
    [control |-> control, lastFocused |-> lastFocused, profile |-> profile,
     splitState |-> "None", firstChild |-> NullPane, secondChild |-> NullPane]

Unallocated == Pane(NullProfile, NullControl, FALSE)

IsLeaf(nd, p) == nd[p].splitState = "None"

RECURSIVE Subtree(_, _)
Subtree(nd, p) ==
    IF p = NullPane THEN {}
    ELSE {p} \cup Subtree(nd, nd[p].firstChild) \cup Subtree(nd, nd[p].secondChild)

(* The panes owned (transitively) by the tab's root pane. *)
Tree(nd) == Subtree(nd, Root)
Leaves(nd) == {p \in Tree(nd) : IsLeaf(nd, p)}
TreeSessions(nd) == {nd[p].control : p \in Tree(nd)} \ {NullControl}

(* control.GetControl().FocusState() != FocusState::Unfocused *)
ControlFocused(nd, f, p) == nd[p].control # NullControl /\ f = nd[p].control

RECURSIVE HasFocusedChild(_, _, _)
HasFocusedChild(nd, f, p) ==
    \/ ControlFocused(nd, f, p)
    \/ nd[p].firstChild # NullPane /\ HasFocusedChild(nd, f, nd[p].firstChild)
    \/ nd[p].secondChild # NullPane /\ HasFocusedChild(nd, f, nd[p].secondChild)

RECURSIVE GetLastFocusedTerminalControl(_, _)
GetLastFocusedTerminalControl(nd, p) ==
    IF IsLeaf(nd, p)
    THEN IF nd[p].lastFocused THEN nd[p].control ELSE NullControl
    ELSE LET firstFocused == GetLastFocusedTerminalControl(nd, nd[p].firstChild)
         IN  IF firstFocused # NullControl THEN firstFocused
             ELSE GetLastFocusedTerminalControl(nd, nd[p].secondChild)

(* GetLastFocusedProfile with the children asked in the other order. *)
RECURSIVE GetLastFocusedProfile_SecondFirst(_, _)
GetLastFocusedProfile_SecondFirst(nd, p) ==
    IF IsLeaf(nd, p)
    THEN IF nd[p].lastFocused THEN nd[p].profile ELSE NullProfile
    ELSE LET secondFocused == GetLastFocusedProfile_SecondFirst(nd, nd[p].secondChild)
         IN  IF secondFocused # NullProfile THEN secondFocused
             ELSE GetLastFocusedProfile_SecondFirst(nd, nd[p].firstChild)

RECURSIVE GetLastFocusedProfile(_, _)
GetLastFocusedProfile(nd, p) ==
    IF IsLeaf(nd, p)
    THEN IF nd[p].lastFocused THEN nd[p].profile ELSE NullProfile
    ELSE LET firstFocused == GetLastFocusedProfile(nd, nd[p].firstChild)
         IN  IF firstFocused # NullProfile THEN firstFocused
             ELSE GetLastFocusedProfile(nd, nd[p].secondChild)

(* CheckUpdateSettings that stops at the first child holding a match. *)
RECURSIVE CheckUpdateSettings_ShortCircuit(_, _, _)
CheckUpdateSettings_ShortCircuit(nd, profile, p) ==
    IF ~IsLeaf(nd, p)
    THEN LET first == CheckUpdateSettings_ShortCircuit(nd, profile, nd[p].firstChild)
         IN  IF first # {} THEN first
             ELSE CheckUpdateSettings_ShortCircuit(nd, profile, nd[p].secondChild)
    ELSE IF profile = nd[p].profile THEN {nd[p].control} ELSE {}

(* Pane::CheckUpdateSettings on pane p: the controls whose UpdateSettings  *)
(* is called with the new settings.                                        *)
RECURSIVE CheckUpdateSettings(_, _, _)
CheckUpdateSettings(nd, profile, p) ==
    IF ~IsLeaf(nd, p)
    THEN CheckUpdateSettings(nd, profile, nd[p].firstChild)
            \cup CheckUpdateSettings(nd, profile, nd[p].secondChild)
    ELSE IF profile = nd[p].profile THEN {nd[p].control} ELSE {}

(* CheckFocus without the FocusState comparison: every leaf with a control *)
(* is marked.                                                              *)
RECURSIVE CheckFocus_NoFocusState(_, _, _)
CheckFocus_NoFocusState(nd, f, p) ==
    IF IsLeaf(nd, p)
    THEN [nd EXCEPT ![p].lastFocused = (nd[p].control # NullControl)]
    ELSE LET own == [nd EXCEPT ![p].lastFocused = FALSE]
             one == CheckFocus_NoFocusState(own, f, nd[p].firstChild)
         IN  CheckFocus_NoFocusState(one, f, nd[p].secondChild)

(* CheckFocus without the call on the second child. *)
RECURSIVE CheckFocus_SkipsSecond(_, _, _)
CheckFocus_SkipsSecond(nd, f, p) ==
    IF IsLeaf(nd, p)
    THEN [nd EXCEPT ![p].lastFocused = ControlFocused(nd, f, p)]
    ELSE LET own == [nd EXCEPT ![p].lastFocused = FALSE]
         IN  CheckFocus_SkipsSecond(own, f, nd[p].firstChild)

(* Pane::CheckFocus on pane p: the fields of every pane afterwards. *)
RECURSIVE CheckFocus(_, _, _)
CheckFocus(nd, f, p) ==
    IF IsLeaf(nd, p)
    THEN [nd EXCEPT ![p].lastFocused = ControlFocused(nd, f, p)]
    ELSE LET own == [nd EXCEPT ![p].lastFocused = FALSE]
             one == CheckFocus(own, f, nd[p].firstChild)
         IN  CheckFocus(one, f, nd[p].secondChild)

(* _AddControlToRoot: pane p subscribes to control's ConnectionClosed. *)
AddControlToRoot(cc, control, p) == [cc EXCEPT ![control] = Append(@, p)]

(* _control.ConnectionClosed(_connectionClosedToken): p's subscription is revoked. *)
RevokeConnectionClosed(cc, control, p) ==
    [cc EXCEPT ![control] = SelectSeq(@, LAMBDA h : h # p)]

Handler(p, closeFirst) == [pane |-> p, closeFirst |-> closeFirst]

(* _SetupChildCloseHandlers: p subscribes to the Closed event of both children. *)
SetupChildCloseHandlers(ch, nd, p) ==
    [ch EXCEPT ![nd[p].firstChild] = Append(@, Handler(p, TRUE)),
               ![nd[p].secondChild] = Append(@, Handler(p, FALSE))]

(* _firstChild->Closed(_firstClosedToken); _secondChild->Closed(_secondClosedToken) *)
RevokeChildCloseHandlers(ch, nd, p) ==
    [ch EXCEPT ![nd[p].firstChild] = SelectSeq(@, LAMBDA h : h # Handler(p, TRUE)),
               ![nd[p].secondChild] = SelectSeq(@, LAMBDA h : h # Handler(p, FALSE))]

(* SplitTarget without the _HasFocusedChild tests: the recursion always    *)
(* takes the first child.                                                  *)
RECURSIVE SplitTarget_FirstLeaf(_, _, _)
SplitTarget_FirstLeaf(nd, f, p) ==
    IF IsLeaf(nd, p) THEN p ELSE SplitTarget_FirstLeaf(nd, f, nd[p].firstChild)

(* SplitTarget asking WasLastFocused of the leaves instead of the live     *)
(* FocusState of their controls.                                           *)
RECURSIVE SplitTarget_ByLastFocused(_, _, _)
SplitTarget_ByLastFocused(nd, f, p) ==
    IF IsLeaf(nd, p) THEN p
    ELSE IF GetLastFocusedTerminalControl(nd, nd[p].firstChild) # NullControl
         THEN SplitTarget_ByLastFocused(nd, f, nd[p].firstChild)
         ELSE IF GetLastFocusedTerminalControl(nd, nd[p].secondChild) # NullControl
              THEN SplitTarget_ByLastFocused(nd, f, nd[p].secondChild)
              ELSE NullPane

(* The leaf that SplitVertical / SplitHorizontal called on p ends up        *)
(* splitting, or NullPane when the recursion stops without splitting.      *)
RECURSIVE SplitTarget(_, _, _)
SplitTarget(nd, f, p) ==
    IF IsLeaf(nd, p) THEN p
    ELSE IF HasFocusedChild(nd, f, nd[p].firstChild)
         THEN SplitTarget(nd, f, nd[p].firstChild)
         ELSE IF HasFocusedChild(nd, f, nd[p].secondChild)
              THEN SplitTarget(nd, f, nd[p].secondChild)
              ELSE NullPane

(* SplitLeaf with the two make_shared<Pane> calls given each other's       *)
(* arguments.                                                              *)
SplitLeaf_SwapsChildren(nd, p, orientation, profile, control, c1, c2) ==
    [nd EXCEPT ![p] = [control |-> NullControl, lastFocused |-> FALSE,
                       profile |-> NullProfile, splitState |-> orientation,
                       firstChild |-> c1, secondChild |-> c2],
               ![c1] = Pane(profile, control, DefaultLastFocused),
               ![c2] = Pane(nd[p].profile, nd[p].control, DefaultLastFocused)]

(* SplitLeaf passing _lastFocused to the first child's constructor. *)
SplitLeaf_PassesLastFocused(nd, p, orientation, profile, control, c1, c2) ==
    [nd EXCEPT ![p] = [control |-> NullControl, lastFocused |-> FALSE,
                       profile |-> NullProfile, splitState |-> orientation,
                       firstChild |-> c1, secondChild |-> c2],
               ![c1] = Pane(nd[p].profile, nd[p].control, nd[p].lastFocused),
               ![c2] = Pane(profile, control, DefaultLastFocused)]

(* SplitLeaf without `_control = { nullptr }; _profile = std::nullopt`. *)
SplitLeaf_KeepsControl(nd, p, orientation, profile, control, c1, c2) ==
    [nd EXCEPT ![p] = [@ EXCEPT !.lastFocused = FALSE, !.splitState = orientation,
                                !.firstChild = c1, !.secondChild = c2],
               ![c1] = Pane(nd[p].profile, nd[p].control, DefaultLastFocused),
               ![c2] = Pane(profile, control, DefaultLastFocused)]

(* SplitLeaf building the second child on the existing control too. *)
SplitLeaf_SharesControl(nd, p, orientation, profile, control, c1, c2) ==
    [nd EXCEPT ![p] = [control |-> NullControl, lastFocused |-> FALSE,
                       profile |-> NullProfile, splitState |-> orientation,
                       firstChild |-> c1, secondChild |-> c2],
               ![c1] = Pane(nd[p].profile, nd[p].control, DefaultLastFocused),
               ![c2] = Pane(profile, nd[p].control, DefaultLastFocused)]

(* The leaf part of SplitVertical / SplitHorizontal on pane p: p becomes a *)
(* split over two new panes c1 and c2.                                     *)
SplitLeaf(nd, p, orientation, profile, control, c1, c2) ==
    [nd EXCEPT ![p] = [control |-> NullControl, lastFocused |-> FALSE,
                       profile |-> NullProfile, splitState |-> orientation,
                       firstChild |-> c1, secondChild |-> c2],
               ![c1] = Pane(nd[p].profile, nd[p].control, DefaultLastFocused),
               ![c2] = Pane(profile, control, DefaultLastFocused)]

RemainingChild(nd, p, closeFirst) ==
    IF closeFirst THEN nd[p].secondChild ELSE nd[p].firstChild

(* CloseChildLeaf with the ternaries on closeFirst inverted: the control   *)
(* and profile of the closed child are taken.                              *)
CloseChildLeaf_TakesClosed(nd, p, closeFirst) ==
    LET closedChild == RemainingChild(nd, p, ~closeFirst)
    IN  [nd EXCEPT ![p] =
            [control |-> nd[closedChild].control,
             profile |-> nd[closedChild].profile,
             lastFocused |-> nd[nd[p].firstChild].lastFocused
                                \/ nd[nd[p].secondChild].lastFocused,
             splitState |-> "None",
             firstChild |-> NullPane, secondChild |-> NullPane]]

(* CloseChildLeaf taking the focus flag of the remaining child alone. *)
CloseChildLeaf_RemainingFocus(nd, p, closeFirst) ==
    LET remainingChild == RemainingChild(nd, p, closeFirst)
    IN  [nd EXCEPT ![p] =
            [control |-> nd[remainingChild].control,
             profile |-> nd[remainingChild].profile,
             lastFocused |-> nd[remainingChild].lastFocused,
             splitState |-> "None",
             firstChild |-> NullPane, secondChild |-> NullPane]]

(* _CloseChild, the remaining child is a leaf: p becomes that leaf. *)
CloseChildLeaf(nd, p, closeFirst) ==
    LET remainingChild == RemainingChild(nd, p, closeFirst)
    IN  [nd EXCEPT ![p] =
            [control |-> nd[remainingChild].control,
             profile |-> nd[remainingChild].profile,
             lastFocused |-> nd[nd[p].firstChild].lastFocused
                                \/ nd[nd[p].secondChild].lastFocused,
             splitState |-> "None",
             firstChild |-> NullPane, secondChild |-> NullPane]]

(* CloseChildSplit stealing the two children in the opposite order. *)
CloseChildSplit_SwapsChildren(nd, p, closeFirst) ==
    LET remainingChild == RemainingChild(nd, p, closeFirst)
    IN  [nd EXCEPT ![p] = [@ EXCEPT !.splitState = nd[remainingChild].splitState,
                                    !.firstChild = nd[remainingChild].secondChild,
                                    !.secondChild = nd[remainingChild].firstChild],
                   ![remainingChild] = [@ EXCEPT !.firstChild = NullPane,
                                                 !.secondChild = NullPane]]

(* _CloseChild, the remaining child is a split: p takes over its state. *)
CloseChildSplit(nd, p, closeFirst) ==
    LET remainingChild == RemainingChild(nd, p, closeFirst)
    IN  [nd EXCEPT ![p] = [@ EXCEPT !.splitState = nd[remainingChild].splitState,
                                    !.firstChild = nd[remainingChild].firstChild,
                                    !.secondChild = nd[remainingChild].secondChild],
                   ![remainingChild] = [@ EXCEPT !.firstChild = NullPane,
                                                 !.secondChild = NullPane]]

(* _CloseChild asks for input focus on its control when it took the focus *)
(* flag from a child: the control Focus(FocusState::Programmatic) is       *)
(* called on, or NullControl.                                              *)
FocusRequest(nd, p) == IF nd[p].lastFocused THEN nd[p].control ELSE NullControl

(* Where input focus is after the tree changed to nd2: a control that left *)
(* the visual tree cannot hold focus, and Focus() on one does nothing.     *)
FocusAfter(nd2, f, request) ==
    IF request # NullControl /\ request \in TreeSessions(nd2) THEN request
    ELSE IF f \in TreeSessions(nd2) THEN f
    ELSE NullControl

(* A pane the tree no longer owns: its shared_ptr was released. *)
Released(nd, p) == p \notin Tree(nd)

(* p's _closedHandlers() runs: the _CloseChild callbacks its subscribers    *)
(* hand to Dispatcher().RunAsync, in subscription order.  A released pane  *)
(* or subscriber takes part only when its memory is intact.                *)
ClosedCallbacks(nd, ch, p, ub) ==
    IF Released(nd, p) /\ ub # "intact" THEN <<>>
    ELSE SelectSeq(ch[p], LAMBDA h : ~Released(nd, h.pane) \/ ub = "intact")

(* The ConnectionClosed handlers hs (panes, in subscription order) run with *)
(* CloseOnExit() true: everything they queue on the dispatcher.            *)
RECURSIVE ConnectionClosedCallbacks(_, _, _, _)
ConnectionClosedCallbacks(nd, ch, hs, ub) ==
    IF hs = <<>> THEN <<>>
    ELSE ClosedCallbacks(nd, ch, Head(hs), ub)
            \o ConnectionClosedCallbacks(nd, ch, Tail(hs), ub)

(* How often pane p raises Closed while the handlers hs run. *)
RaisedBy(nd, hs, ub, p) ==
    Cardinality({i \in DOMAIN hs : hs[i] = p /\ (~Released(nd, p) \/ ub = "intact")})

(* Some handler reached from hs belongs to a released pane. *)
TouchesReleased(nd, ch, hs) ==
    \E i \in DOMAIN hs :
        \/ Released(nd, hs[i])
        \/ \E j \in DOMAIN ch[hs[i]] : Released(nd, ch[hs[i]][j].pane)

Min(a, b) == IF a < b THEN a ELSE b

NoOp == [op |-> "none", pane |-> NullPane, closeFirst |-> FALSE,
         orientation |-> "None", control |-> NullControl, profile |-> NullProfile,
         focused |-> FALSE, newControl |-> NullControl, newProfile |-> NullProfile,
         focusRequest |-> NullControl, afterSplit |-> FALSE, updated |-> {}]

Init ==
    /\ \E profile \in Profiles, lastFocused \in BOOLEAN :
          nodes = [p \in Panes |-> IF p = Root THEN Pane(profile, 1, lastFocused)
                                   ELSE Unallocated]
    /\ numSessions = 1
    /\ connectionClosed = [s \in Sessions |-> IF s = 1 THEN <<Root>> ELSE <<>>]
    /\ closedHandlers = [p \in Panes |-> <<>>]
    /\ queue = <<>>
    /\ terminated = {}
    /\ signalled = [s \in Sessions |-> "no"]
    /\ focus \in {NullControl, 1}
    /\ raised = [p \in Panes |-> 0]
    /\ crashed = FALSE
    /\ last = NoOp

(* The tab calls SplitVertical / SplitHorizontal on its root pane. *)
Split(orientation, profile) ==
    /\ ~crashed
    /\ numSessions < MaxSessions
    /\ LET p == SplitTarget(nodes, focus, Root)
           control == numSessions + 1
           c1 == 2 * numSessions
           c2 == 2 * numSessions + 1
       IN  IF p = NullPane
           THEN /\ last' = [NoOp EXCEPT !.op = "splitNoTarget",
                                        !.orientation = orientation,
                                        !.newProfile = profile]
                /\ UNCHANGED <<nodes, numSessions, connectionClosed, closedHandlers,
                               focus>>
           ELSE LET nd2 == SplitLeaf(nodes, p, orientation, profile, control, c1, c2)
                IN  /\ nodes' = nd2
                    /\ numSessions' = control
                    /\ connectionClosed' =
                          AddControlToRoot(
                              AddControlToRoot(
                                  RevokeConnectionClosed(connectionClosed,
                                                         nodes[p].control, p),
                                  nodes[p].control, c1),
                              control, c2)
                    /\ closedHandlers' = SetupChildCloseHandlers(closedHandlers, nd2, p)
                    /\ focus' = focus
                    /\ last' = [NoOp EXCEPT !.op = "split", !.pane = p,
                                            !.orientation = orientation,
                                            !.control = nodes[p].control,
                                            !.profile = nodes[p].profile,
                                            !.focused = nodes[p].lastFocused,
                                            !.newControl = control,
                                            !.newProfile = profile]
    /\ UNCHANGED <<queue, terminated, signalled, raised, crashed>>

(* The tab calls CheckFocus on its root pane. *)
RefreshFocus ==
    /\ ~crashed
    /\ nodes' = CheckFocus(nodes, focus, Root)
    /\ last' = [NoOp EXCEPT !.op = "checkFocus", !.pane = Root]
    /\ UNCHANGED <<numSessions, connectionClosed, closedHandlers, queue,
                   terminated, signalled, focus, raised, crashed>>

(* The UI moves input focus to a control of the tree, or away from the tab. *)
FocusChanged(s) ==
    /\ ~crashed
    /\ s \in TreeSessions(nodes) \cup {NullControl}
    /\ s # focus
    /\ focus' = s
    /\ UNCHANGED <<nodes, numSessions, connectionClosed, closedHandlers, queue,
                   terminated, signalled, raised, crashed, last>>

(* Where control s is held: by the root pane as a leaf, by another leaf of *)
(* the tree, or by no leaf of the tree.                                    *)
Holder(nd, s) ==
    LET holders == {p \in Leaves(nd) : nd[p].control = s}
    IN  IF holders = {} THEN "detached"
        ELSE IF Root \in holders THEN "root" ELSE "child"

(* The connection of control s closes: the control raises ConnectionClosed. *)
(* Each subscribed pane raises its own Closed event when CloseOnExit().    *)
ConnectionClosed(s, closeOnExit, ub) ==
    /\ ~crashed
    /\ s \in 1..numSessions
    /\ s \notin terminated
    /\ ub # "intact" =>
          closeOnExit /\ TouchesReleased(nodes, closedHandlers, connectionClosed[s])
    /\ terminated' = terminated \cup {s}
    /\ signalled' = IF closeOnExit THEN [signalled EXCEPT ![s] = Holder(nodes, s)]
                    ELSE signalled
    /\ IF ~closeOnExit
       THEN UNCHANGED <<queue, raised, crashed>>
       ELSE IF ub = "crash"
       THEN /\ crashed' = TRUE
            /\ UNCHANGED <<queue, raised>>
       ELSE /\ queue' = queue \o ConnectionClosedCallbacks(nodes, closedHandlers,
                                                          connectionClosed[s], ub)
            /\ raised' = [p \in Panes |->
                            Min(2, raised[p] + RaisedBy(nodes, connectionClosed[s], ub, p))]
            /\ UNCHANGED crashed
    /\ UNCHANGED <<nodes, numSessions, connectionClosed, closedHandlers, focus, last>>

(* The dispatcher runs the oldest queued callback: _CloseChild(closeFirst)  *)
(* on the pane whose handler queued it.                                    *)
CloseChild(ub) ==
    /\ ~crashed
    /\ queue # <<>>
    /\ LET p == Head(queue).pane
           closeFirst == Head(queue).closeFirst
           remainingChild == RemainingChild(nodes, p, closeFirst)
           afterSplit == last.op = "split" /\ last.pane = p
           called == IF afterSplit
                     THEN [last EXCEPT !.closeFirst = closeFirst, !.afterSplit = TRUE]
                     ELSE [NoOp EXCEPT !.pane = p, !.closeFirst = closeFirst]
       IN  /\ ub # "intact" => Released(nodes, p)
           /\ queue' = Tail(queue)
           /\ IF ub = "skip"
              THEN UNCHANGED <<nodes, connectionClosed, closedHandlers, focus,
                               crashed, last>>
              ELSE IF ub = "crash" \/ remainingChild = NullPane
              THEN \* remainingChild->_IsLeaf() through a null or dangling pointer
                   /\ crashed' = TRUE
                   /\ last' = [called EXCEPT !.op = "closeChildFault"]
                   /\ UNCHANGED <<nodes, connectionClosed, closedHandlers, focus>>
              ELSE IF IsLeaf(nodes, remainingChild)
              THEN LET nd2 == CloseChildLeaf(nodes, p, closeFirst)
                       request == FocusRequest(nd2, p)
                   IN  /\ nodes' = nd2
                       /\ connectionClosed' =
                             AddControlToRoot(connectionClosed, nd2[p].control, p)
                       /\ focus' = FocusAfter(nd2, focus, request)
                       /\ last' = [called EXCEPT !.op = "closeChildLeaf",
                                                 !.focusRequest = request]
                       /\ UNCHANGED <<closedHandlers, crashed>>
              ELSE LET nd2 == CloseChildSplit(nodes, p, closeFirst)
                   IN  /\ nodes' = nd2
                       /\ closedHandlers' =
                             SetupChildCloseHandlers(
                                 RevokeChildCloseHandlers(closedHandlers, nodes, p),
                                 nd2, p)
                       /\ focus' = FocusAfter(nd2, focus, NullControl)
                       /\ last' = [called EXCEPT !.op = "closeChildSplit"]
                       /\ UNCHANGED <<connectionClosed, crashed>>
    /\ UNCHANGED <<numSessions, terminated, signalled, raised>>

Next ==
    \/ \E orientation \in Orientations, profile \in Profiles : Split(orientation, profile)
    \/ RefreshFocus
    \/ \E s \in Sessions \cup {NullControl} : FocusChanged(s)
    \/ \E s \in Sessions, closeOnExit \in BOOLEAN, ub \in UBOutcomes :
          ConnectionClosed(s, closeOnExit, ub)
    \/ \E ub \in UBOutcomes : CloseChild(ub)

(***************************************************************************)
(* The queries and CheckUpdateSettings change no field of any pane.  They  *)
(* are applied to every tree of at most MaxSessions leaves, with every     *)
(* assignment of profiles and _lastFocused flags to the leaves.            *)
(***************************************************************************)

(* The leaf branch of SplitVertical / SplitHorizontal on pane p of st. *)
SplitPane(st, p, orientation, profile) ==
    LET control == st.numSessions + 1
        c1 == 2 * st.numSessions
        c2 == 2 * st.numSessions + 1
        nd2 == SplitLeaf(st.nodes, p, orientation, profile, control, c1, c2)
    IN  [nodes |-> nd2,
         numSessions |-> control,
         connectionClosed |->
             AddControlToRoot(
                 AddControlToRoot(
                     RevokeConnectionClosed(st.connectionClosed,
                                            st.nodes[p].control, p),
                     st.nodes[p].control, c1),
                 control, c2),
         closedHandlers |-> SetupChildCloseHandlers(st.closedHandlers, nd2, p)]

(* The tab built by the constructor and then splits number k..size, split *)
(* number k made on leaf choice[k] with profile profiles[k].               *)
RECURSIVE Grown(_, _, _, _, _, _)
Grown(st, k, size, choice, profiles, orientation) ==
    IF k > size THEN st
    ELSE Grown(SplitPane(st, choice[k], orientation, profiles[k]),
               k + 1, size, choice, profiles, orientation)

RECURSIVE ChoiceOfLeaves(_, _, _, _, _, _)
ChoiceOfLeaves(st, k, size, choice, profiles, orientation) ==
    IF k > size THEN TRUE
    ELSE /\ choice[k] \in Leaves(st.nodes)
         /\ ChoiceOfLeaves(SplitPane(st, choice[k], orientation, profiles[k]),
                           k + 1, size, choice, profiles, orientation)

QueryInit ==
    \E size \in Sessions, orientation \in Orientations :
    \E choice \in [2..size -> Panes], profiles \in [1..size -> Profiles],
       flags \in [1..size -> BOOLEAN] :
       LET st0 == [nodes |-> [p \in Panes |->
                                 IF p = Root THEN Pane(profiles[1], 1, FALSE)
                                 ELSE Unallocated],
                   numSessions |-> 1,
                   connectionClosed |-> [s \in Sessions |->
                                            IF s = 1 THEN <<Root>> ELSE <<>>],
                   closedHandlers |-> [p \in Panes |-> <<>>]]
           st == Grown(st0, 2, size, choice, profiles, orientation)
       IN  /\ ChoiceOfLeaves(st0, 2, size, choice, profiles, orientation)
           /\ nodes = [p \in Panes |->
                          IF p \in Leaves(st.nodes)
                          THEN [st.nodes[p] EXCEPT
                                   !.lastFocused = flags[st.nodes[p].control]]
                          ELSE st.nodes[p]]
           /\ numSessions = st.numSessions
           /\ connectionClosed = st.connectionClosed
           /\ closedHandlers = st.closedHandlers
           /\ queue = <<>>
           /\ terminated = {}
           /\ signalled = [s \in Sessions |-> "no"]
           /\ focus = NullControl
           /\ raised = [p \in Panes |-> 0]
           /\ crashed = FALSE
           /\ last = NoOp

(* The tab calls GetLastFocusedTerminalControl and GetLastFocusedProfile   *)
(* on its root pane.                                                       *)
GetLastFocused ==
    /\ last' = [NoOp EXCEPT !.op = "getLastFocused", !.pane = Root,
                            !.control = GetLastFocusedTerminalControl(nodes, Root),
                            !.profile = GetLastFocusedProfile(nodes, Root)]
    /\ UNCHANGED <<nodes, numSessions, connectionClosed, closedHandlers, queue,
                   terminated, signalled, focus, raised, crashed>>

(* The tab calls CheckUpdateSettings(settings, profile) on its root pane. *)
RefreshSettings(profile) ==
    /\ last' = [NoOp EXCEPT !.op = "checkUpdateSettings", !.pane = Root,
                            !.newProfile = profile,
                            !.updated = CheckUpdateSettings(nodes, profile, Root)]
    /\ UNCHANGED <<nodes, numSessions, connectionClosed, closedHandlers, queue,
                   terminated, signalled, focus, raised, crashed>>

QueryNext ==
    \/ GetLastFocused
    \/ \E profile \in Profiles : RefreshSettings(profile)

QuerySpec == QueryInit /\ [][QueryNext]_vars

(***************************************************************************)
(* Properties.                                                             *)
(***************************************************************************)

(* The dispatcher runs the oldest queued _CloseChild callback in this step. *)
CloseChildRuns == ~crashed /\ queue # <<>> /\ queue' = Tail(queue)

HasBothChildren(nd, p) ==
    ~IsLeaf(nd, p) /\ nd[p].firstChild # NullPane /\ nd[p].secondChild # NullPane

(* C1: whenever a queued closeChild(closeFirst) callback is executed on a   *)
(* node, that node is a Split with both children present, whatever the     *)
(* order of terminations and however many callbacks were queued before.    *)
C1_CloseChildOnSplit ==
    [][CloseChildRuns => HasBothChildren(nodes, Head(queue).pane)]_vars

(* C2: every registered handler belongs to a node that is still part of the *)
(* tree: no control has a ConnectionClosed handler of a discarded pane, and *)
(* no pane of the tree has a Closed handler of a discarded pane.           *)
C2_NoDanglingSubscriptions ==
    /\ \A s \in Sessions : \A i \in DOMAIN connectionClosed[s] :
          connectionClosed[s][i] \in Tree(nodes)
    /\ \A p \in Tree(nodes) : \A i \in DOMAIN closedHandlers[p] :
          closedHandlers[p][i].pane \in Tree(nodes)

OtherChild(nd, p, c) ==
    IF c = nd[p].firstChild THEN nd[p].secondChild ELSE nd[p].firstChild

(* C3: after a closeChild whose remaining child was a Split, the            *)
(* termination of an adopted leaf's session queues exactly one closeChild, *)
(* on the adopting parent, and that callback turns the parent into a Leaf  *)
(* holding the other adopted child's session.                              *)
C3_AdoptedChildCloses ==
    [][\A c \in Panes :
          (/\ last.op = "closeChildSplit"
           /\ ~crashed
           /\ ~Released(nodes, last.pane)
           /\ c \in {nodes[last.pane].firstChild, nodes[last.pane].secondChild}
           /\ IsLeaf(nodes, c)
           /\ IsLeaf(nodes, OtherChild(nodes, last.pane, c)))
          =>
          /\ (\E ub \in UBOutcomes : ConnectionClosed(nodes[c].control, TRUE, ub))
                => /\ ~crashed'
                   /\ queue' = Append(queue,
                                      Handler(last.pane, c = nodes[last.pane].firstChild))
          /\ (CloseChildRuns
                /\ Head(queue) = Handler(last.pane, c = nodes[last.pane].firstChild))
                => /\ IsLeaf(nodes', last.pane)
                   /\ nodes'[last.pane].control =
                         nodes[OtherChild(nodes, last.pane, c)].control
      ]_vars

FocusedLeaves(nd) == {p \in Leaves(nd) : nd[p].lastFocused}

(* C4: at most one Leaf of the tree has isLastFocused == true, after any    *)
(* sequence of split, closeChild and refreshFocusState.                    *)
C4_AtMostOneFocused == Cardinality(FocusedLeaves(nodes)) <= 1

C4_Witness ==
    /\ last.op = "closeChildLeaf"
    /\ Cardinality(Leaves(nodes)) >= 2
    /\ Cardinality(FocusedLeaves(nodes)) = 1

WellFormedLeaf(nd, p) ==
    /\ nd[p].splitState = "None"
    /\ nd[p].control # NullControl
    /\ nd[p].profile # NullProfile
    /\ nd[p].firstChild = NullPane
    /\ nd[p].secondChild = NullPane

WellFormedSplit(nd, p) ==
    /\ nd[p].splitState \in Orientations
    /\ nd[p].firstChild # NullPane
    /\ nd[p].secondChild # NullPane
    /\ nd[p].control = NullControl
    /\ nd[p].profile = NullProfile

(* C5: every node of the tree is either a Leaf (no split state, session and *)
(* profile present, no children) or a Split (an orientation, both children *)
(* present, no session and no profile).                                    *)
C5_LeafXorSplit ==
    \A p \in Tree(nodes) : WellFormedLeaf(nodes, p) \/ WellFormedSplit(nodes, p)

C5_Witness ==
    /\ last.op = "closeChildSplit"
    /\ ~Released(nodes, last.pane)
    /\ \E p \in Tree(nodes) : WellFormedSplit(nodes, p)
    /\ Cardinality(Leaves(nodes)) = 2

(* C6: split(orientation, profileId, session) on a Leaf holding (p0, s0)    *)
(* makes it a Split of that orientation over exactly two Leaf children,    *)
(* the first holding (p0, s0) and the second the supplied (profileId,      *)
(* session); the node keeps no session and no profile and its              *)
(* isLastFocused is false.                                                 *)
C6_SplitResult ==
    last.op = "split" =>
        LET p == last.pane
            c1 == nodes[p].firstChild
            c2 == nodes[p].secondChild
        IN  /\ nodes[p].splitState = last.orientation
            /\ c1 # NullPane /\ c2 # NullPane /\ c1 # c2
            /\ nodes[p].control = NullControl
            /\ nodes[p].profile = NullProfile
            /\ nodes[p].lastFocused = FALSE
            /\ WellFormedLeaf(nodes, c1)
            /\ nodes[c1].profile = last.profile /\ nodes[c1].control = last.control
            /\ WellFormedLeaf(nodes, c2)
            /\ nodes[c2].profile = last.newProfile
            /\ nodes[c2].control = last.newControl

C6_Witness ==
    /\ last.op = "split"
    /\ last.pane # Root
    /\ last.profile # last.newProfile
    /\ last.orientation = "Horizontal"

(* C7 as claimed: right after the split of a Leaf, getLastFocusedSession()  *)
(* on the resulting subtree is the original session when the Leaf had      *)
(* isLastFocused, and none when it had not.                                *)
C7_SplitKeepsLastFocused ==
    last.op = "split" =>
        GetLastFocusedTerminalControl(nodes, last.pane)
            = IF last.focused THEN last.control ELSE NullControl

(* C7 as amended: right after the split of a Leaf (no refreshFocusState in  *)
(* between), getLastFocusedSession() on the resulting subtree is none,     *)
(* whether or not the Leaf had isLastFocused.                              *)
C7_SplitDropsLastFocused ==
    last.op = "split" =>
        GetLastFocusedTerminalControl(nodes, last.pane) = NullControl

C7_Witness ==
    /\ last.op = "split"
    /\ last.focused
    /\ ~Released(nodes, last.pane)

(* A _CloseChild(false) ran on the pane that had just been split. *)
RoundTripDone ==
    /\ last.op = "closeChildLeaf"
    /\ last.afterSplit
    /\ ~last.closeFirst

(* C8 as claimed: split, then at once closeChild of the new second child,   *)
(* gives back a Leaf holding s0 and p0 with isLastFocused == f0.           *)
C8_RoundTrip ==
    RoundTripDone => nodes[last.pane] = Pane(last.profile, last.control, last.focused)

(* C8 as amended: split, then at once closeChild of the new second child,   *)
(* gives back a Leaf holding s0 and p0, with isLastFocused == false for    *)
(* both values of f0 and both orientations.                                *)
C8_RoundTripLosesFocus ==
    RoundTripDone => nodes[last.pane] = Pane(last.profile, last.control, FALSE)

C8_Witness ==
    /\ RoundTripDone
    /\ last.focused
    /\ last.orientation = "Horizontal"
    /\ last.profile # last.newProfile

(* C9: closeChild on a Split of the tree whose remaining child is a Leaf    *)
(* makes the node a Leaf with the remaining child's session and profile,   *)
(* isLastFocused the OR of the two children's flags and no children, and   *)
(* asks for input focus on the adopted session exactly when the resulting  *)
(* isLastFocused is true.                                                  *)
C9_CloseLeafCase ==
    [][LET p == Head(queue).pane
           remainingChild == RemainingChild(nodes, p, Head(queue).closeFirst)
       IN  (/\ CloseChildRuns
            /\ ~Released(nodes, p)
            /\ remainingChild # NullPane
            /\ IsLeaf(nodes, remainingChild))
           =>
           /\ nodes'[p] =
                 Pane(nodes[remainingChild].profile, nodes[remainingChild].control,
                      nodes[nodes[p].firstChild].lastFocused
                          \/ nodes[nodes[p].secondChild].lastFocused)
           /\ last'.focusRequest =
                 IF nodes'[p].lastFocused THEN nodes[remainingChild].control
                 ELSE NullControl
           /\ nodes'[p].lastFocused => focus' = nodes'[p].control
      ]_vars

C9_Witness ==
    /\ last.op = "closeChildLeaf"
    /\ ~Released(nodes, last.pane)
    /\ last.focusRequest = nodes[last.pane].control
    /\ nodes[last.pane].lastFocused
    /\ last.pane # Root

(* C10: closeChild on a Split of the tree whose remaining child is a Split  *)
(* leaves a Split with the remaining child's orientation and its two       *)
(* children in the same order; nothing below the adopted children changes, *)
(* the node's own isLastFocused stays false and input focus is not asked   *)
(* for.                                                                    *)
C10_CloseSplitCase ==
    [][LET p == Head(queue).pane
           remainingChild == RemainingChild(nodes, p, Head(queue).closeFirst)
       IN  (/\ CloseChildRuns
            /\ ~Released(nodes, p)
            /\ remainingChild # NullPane
            /\ ~IsLeaf(nodes, remainingChild))
           =>
           /\ nodes'[p].splitState = nodes[remainingChild].splitState
           /\ nodes'[p].firstChild = nodes[remainingChild].firstChild
           /\ nodes'[p].secondChild = nodes[remainingChild].secondChild
           /\ nodes'[p].control = NullControl
           /\ nodes'[p].profile = NullProfile
           /\ \A q \in Subtree(nodes, remainingChild) \ {remainingChild} :
                 nodes'[q] = nodes[q]
           /\ ~nodes[p].lastFocused /\ ~nodes'[p].lastFocused
           /\ last'.focusRequest = NullControl
           /\ focus' \in {focus, NullControl}
      ]_vars

C10_Witness ==
    /\ last.op = "closeChildSplit"
    /\ ~Released(nodes, last.pane)
    /\ nodes[last.pane].splitState = "Horizontal"
    /\ nodes[nodes[last.pane].secondChild].lastFocused
    /\ WellFormedLeaf(nodes, nodes[last.pane].firstChild)

(* The tab calls SplitVertical or SplitHorizontal on the root in this step. *)
SplitCalled == \E orientation \in Orientations, profile \in Profiles :
                  Split(orientation, profile)

(* C11 as claimed: split on a tree in which no session holds input focus    *)
(* changes nothing, whether the root is a Leaf or a Split: no node, no     *)
(* subscription, and the supplied session does not enter the tree.         *)
C11_SplitWithoutFocusIsNoOp ==
    [][(focus = NullControl /\ SplitCalled)
          => UNCHANGED <<nodes, numSessions, connectionClosed, closedHandlers,
                         queue, focus>>]_vars

(* C11 as amended: split on a tree whose root is a Split and in which no    *)
(* session holds input focus changes nothing (no node, no subscription,    *)
(* the supplied session does not enter the tree); a root Leaf is split     *)
(* whether or not its session holds input focus.                           *)
C11_SplitWithoutFocus ==
    [][(focus = NullControl /\ SplitCalled)
          => IF IsLeaf(nodes, Root)
             THEN /\ ~IsLeaf(nodes', Root)
                  /\ numSessions' = numSessions + 1
                  /\ numSessions' \in TreeSessions(nodes')
             ELSE UNCHANGED <<nodes, numSessions, connectionClosed, closedHandlers,
                              queue, focus>>]_vars

C11_Witness ==
    /\ last.op = "splitNoTarget"
    /\ focus = NullControl
    /\ ~IsLeaf(nodes, Root)
    /\ \E p \in Leaves(nodes) : nodes[p].lastFocused

(* The leaves below pane p, first child before second child. *)
RECURSIVE LeafOrder(_, _)
LeafOrder(nd, p) ==
    IF IsLeaf(nd, p) THEN <<p>>
    ELSE LeafOrder(nd, nd[p].firstChild) \o LeafOrder(nd, nd[p].secondChild)

(* C12: CheckUpdateSettings(settings, profile) on the root calls            *)
(* UpdateSettings on the control of every Leaf whose profile equals the    *)
(* argument and on no other control, whatever the shape of the tree (on    *)
(* none when no Leaf has the profile), and changes no pane's children,     *)
(* control, profile or lastFocused flag and no subscription.               *)
C12_SettingsReachMatchingLeaves ==
    [][\A profile \in Profiles :
          RefreshSettings(profile)
             => /\ last'.updated =
                      {nodes[p].control :
                          p \in {q \in Leaves(nodes) : nodes[q].profile = profile}}
                /\ (\A q \in Leaves(nodes) : nodes[q].profile # profile)
                      => last'.updated = {}
                /\ UNCHANGED <<nodes, numSessions, connectionClosed,
                               closedHandlers>>]_vars

C12_Witness ==
    /\ last.op = "checkUpdateSettings"
    /\ Cardinality(Leaves(nodes)) = 3
    /\ Cardinality(last.updated) = 2
    /\ nodes[LeafOrder(nodes, Root)[2]].profile # last.newProfile

(* The leaves of the tree that hold control s. *)
HeldBy(nd, s) == {p \in Leaves(nd) : nd[p].control = s}

(* C13: once the connection of a control held by a non-root Leaf has closed *)
(* (with CloseOnExit()), the callbacks queued on the dispatcher collapse    *)
(* that Leaf: when the dispatcher has run every queued callback and the     *)
(* process has not faulted, no Leaf of the tree holds that control.         *)
C13_TerminatedLeafCollapses ==
    (queue = <<>> /\ ~crashed)
       => \A s \in Sessions : signalled[s] = "child" => HeldBy(nodes, s) = {}

(* C14: no pane raises its Closed event more than once, and the root        *)
(* raises it exactly once after the last session of the tree has           *)
(* terminated: when the connection of every control of the tree has closed *)
(* (with CloseOnExit()), the dispatcher has run every queued callback and   *)
(* the process has not faulted, the tab has been notified once.            *)
C14_ClosedRaisedOnce ==
    /\ \A p \in Panes : raised[p] <= 1
    /\ (/\ queue = <<>>
        /\ ~crashed
        /\ \A s \in TreeSessions(nodes) : signalled[s] # "no")
          => raised[Root] = 1

(* C15: every split is given a new control, and in every reachable state   *)
(* every control of the tree is held by exactly one Leaf: every Leaf holds *)
(* a control, no two Leaves hold the same one, and no Split holds one.     *)
C15_OneLeafPerSession ==
    /\ \A p \in Leaves(nodes) : nodes[p].control \in 1..numSessions
    /\ \A p, q \in Leaves(nodes) : nodes[p].control = nodes[q].control => p = q
    /\ \A s \in TreeSessions(nodes) : Cardinality(HeldBy(nodes, s)) = 1
    /\ \A p \in Tree(nodes) \ Leaves(nodes) : nodes[p].control = NullControl

C15_Witness ==
    /\ last.op = "closeChildSplit"
    /\ ~crashed
    /\ Cardinality(Leaves(nodes)) = 2
    /\ Cardinality(TreeSessions(nodes)) = 2

(* The leaves of the tree whose control holds input focus, left to right. *)
LiveFocusedLeaves ==
    SelectSeq(LeafOrder(nodes, Root), LAMBDA q : ControlFocused(nodes, focus, q))

LeafPairs(nd, leaves) ==
    [i \in 1..Len(leaves) |-> <<nd[leaves[i]].control, nd[leaves[i]].profile>>]

SplitCount(nd) == Cardinality(Tree(nd) \ Leaves(nd))

(* The depth below pane p (at depth d) of the leaf holding control s, or -1. *)
RECURSIVE SessionDepth(_, _, _, _)
SessionDepth(nd, p, s, d) ==
    IF IsLeaf(nd, p) THEN (IF nd[p].control = s THEN d ELSE -1)
    ELSE LET first == SessionDepth(nd, nd[p].firstChild, s, d + 1)
         IN  IF first # -1 THEN first
             ELSE SessionDepth(nd, nd[p].secondChild, s, d + 1)

(* C17: every _CloseChild the dispatcher runs on a pane of the tree removes *)
(* exactly the closing child's subtree: the (control, profile) pairs of    *)
(* the other Leaves, left to right, are the same before and after, the     *)
(* tree has exactly one Split fewer, and every surviving Leaf below the    *)
(* collapsed pane is one level higher.                                     *)
C17_CloseRemovesClosingSubtree ==
    [][(CloseChildRuns /\ Head(queue).pane \in Tree(nodes))
          => LET p == Head(queue).pane
                 closing == IF Head(queue).closeFirst THEN nodes[p].firstChild
                            ELSE nodes[p].secondChild
                 gone == Subtree(nodes, closing)
                 kept == SelectSeq(LeafOrder(nodes, Root), LAMBDA q : q \notin gone)
             IN  /\ LeafPairs(nodes', LeafOrder(nodes', Root)) = LeafPairs(nodes, kept)
                 /\ SplitCount(nodes') = SplitCount(nodes) - 1
                 /\ \A q \in Leaves(nodes) \cap (Subtree(nodes, p) \ gone) :
                       SessionDepth(nodes', Root, nodes[q].control, 0)
                          = SessionDepth(nodes, Root, nodes[q].control, 0) - 1]_vars

(* C18: when the connection of the control of a Leaf of the tree closes    *)
(* (with CloseOnExit()), that Leaf raises its Closed event, whether the     *)
(* Leaf was built by the constructor, by a split, or became a Leaf again   *)
(* in a collapse.                                                          *)
C18_TerminationRaisesClosed ==
    [][\A s \in Sessions, ub \in UBOutcomes :
          ConnectionClosed(s, TRUE, ub)
             => \A p \in HeldBy(nodes, s) : raised'[p] = Min(2, raised[p] + 1)]_vars

(* C19: in every reachable state no Split of the tree has lastFocused set; *)
(* and CheckFocus on the root leaves every Leaf's lastFocused equal to the *)
(* live input focus of its own control and every Split's lastFocused       *)
(* false, and changes no other field of any pane and no subscription.      *)
C19_RefreshFocusState ==
    /\ [](\A p \in Tree(nodes) \ Leaves(nodes) : ~nodes[p].lastFocused)
    /\ [][RefreshFocus
             => /\ \A p \in Leaves(nodes') :
                      nodes'[p].lastFocused = ControlFocused(nodes', focus', p)
                /\ \A p \in Tree(nodes') \ Leaves(nodes') : ~nodes'[p].lastFocused
                /\ \A p \in Panes :
                      nodes'[p] = [nodes[p] EXCEPT !.lastFocused = nodes'[p].lastFocused]
                /\ UNCHANGED <<connectionClosed, closedHandlers, focus>>]_vars

C19_Witness ==
    /\ last.op = "checkFocus"
    /\ Cardinality(Leaves(nodes)) = 3
    /\ focus # NullControl
    /\ \E p \in Subtree(nodes, nodes[Root].secondChild) :
          IsLeaf(nodes, p) /\ nodes[p].lastFocused /\ nodes[p].control = focus
    /\ \A q \in Leaves(nodes) : nodes[q].lastFocused => nodes[q].control = focus

(* The leaves of the tree whose lastFocused flag is set, left to right. *)
LastFocusedLeaves ==
    SelectSeq(LeafOrder(nodes, Root), LAMBDA q : nodes[q].lastFocused)

(* C20: GetLastFocusedTerminalControl on the root returns the control of   *)
(* the leftmost Leaf (first child before second child) whose lastFocused   *)
(* is set, or none when no Leaf has the flag; GetLastFocusedProfile        *)
(* returns the profile of that same Leaf, or none with it; neither changes *)
(* any pane or subscription.                                               *)
C20_LastFocusedQueries ==
    [][GetLastFocused
          => /\ IF LastFocusedLeaves = <<>>
                THEN /\ last'.control = NullControl
                     /\ last'.profile = NullProfile
                ELSE /\ last'.control = nodes[Head(LastFocusedLeaves)].control
                     /\ last'.profile = nodes[Head(LastFocusedLeaves)].profile
                     /\ last'.control # NullControl
                     /\ last'.profile # NullProfile
             /\ UNCHANGED <<nodes, numSessions, connectionClosed, closedHandlers,
                            focus>>]_vars

C20_Witness ==
    /\ last.op = "getLastFocused"
    /\ Len(LastFocusedLeaves) = 2
    /\ ~nodes[Head(LeafOrder(nodes, Root))].lastFocused
    /\ last.control = nodes[Head(LastFocusedLeaves)].control
    /\ nodes[LastFocusedLeaves[1]].profile # nodes[LastFocusedLeaves[2]].profile

Spec == Init /\ [][Next]_vars
====
